---- MODULE Spec2Model ----
(***************************************************************************)
(* asset-check: retrieval, schema validation and interpretation of an      *)
(* assetlinks.json manifest (src/run.js).                                  *)
(*                                                                         *)
(* JSON values are modelled structurally.  An object is a record holding   *)
(* the set of keys it has ("keys") and the value under each key; a value   *)
(* under a key the object does not have is a fixed default and is never    *)
(* read.  Strings that the program only compares or prints are TLA+        *)
(* strings; a text the program searches (Content-Type) is a sequence of    *)
(* tokens.                                                                 *)
(***************************************************************************)
EXTENDS Integers, Sequences, FiniteSets, TLC

\* Bound of the model: the longest manifest.
MaxEntries == 2

\* LOG_LEVELS
LOG_SILENT == 0
LOG_INFO == 1
LOG_DEBUG == 2
LOG_LEVELS == {LOG_SILENT, LOG_INFO, LOG_DEBUG}

\* The status handleHttpRequest requires, and the type it looks for.
HTTP_OK == 200
APPLICATION_JSON == "application/json"

\* The capability tokens AssetRelation looks for.
GET_LOGIN_CREDS == "delegate_permission/common.get_login_creds"
HANDLE_ALL_URLS == "delegate_permission/common.handle_all_urls"

-----------------------------------------------------------------------------
(* The universe of inputs.                                                 *)

\* A relation element that is not a JSON string (a number).
NOT_A_STRING == "<number>"

SITE == "https://www.example.com"
PACKAGE == "com.example.app"

MkTarget(keys, namespace, site, package_name) ==
  [keys |-> keys, namespace |-> namespace, site |-> site,
   package_name |-> package_name]

\* The value stored for a key an entry does not have.
NoTarget == MkTarget({}, "", "", "")

WebTargetOk == MkTarget({"namespace", "site"}, "web", SITE, "")
AndroidTargetOk ==
  MkTarget({"namespace", "package_name", "sha256_cert_fingerprints"},
           "android_app", "", PACKAGE)

\* Targets the schema or the interpreter rejects: web without site, web with
\* an empty site (a /WebTarget, which isWeb() does not take for one), android
\* without package name, android without fingerprints, no namespace, an
\* unknown namespace.
DefectiveTargets ==
  { MkTarget({"namespace"}, "web", "", ""),
    MkTarget({"namespace", "site"}, "web", "", ""),
    MkTarget({"namespace", "sha256_cert_fingerprints"}, "android_app", "", ""),
    MkTarget({"namespace", "package_name"}, "android_app", "", PACKAGE),
    MkTarget({"site"}, "", SITE, ""),
    MkTarget({"namespace", "site"}, "ios_app", SITE, "") }

Targets == {WebTargetOk, AndroidTargetOk} \cup DefectiveTargets

BOTH_RELATIONS == <<GET_LOGIN_CREDS, HANDLE_ALL_URLS>>

Relations ==
  { <<>>, <<GET_LOGIN_CREDS>>, <<HANDLE_ALL_URLS>>, BOTH_RELATIONS,
    <<NOT_A_STRING>> }

MkEntry(keys, relation, target) ==
  [keys |-> keys, relation |-> relation, target |-> target]

\* The entries of the manifests: every relation, and none, with each of the
\* two sound targets; every other target, and none, with the relation that
\* has both capabilities; the entry with no key; and an entry that carries
\* an "include" key beside a sound relation and a sound target (no schema
\* and no constructor reads the key, so its value is not kept).
Entries ==
  {MkEntry({"relation", "target"}, r, t) :
     r \in Relations, t \in {WebTargetOk, AndroidTargetOk}}
    \cup {MkEntry({"target"}, <<>>, t) : t \in {WebTargetOk, AndroidTargetOk}}
    \cup {MkEntry({"relation", "target"}, BOTH_RELATIONS, t) :
            t \in DefectiveTargets}
    \cup {MkEntry({"relation"}, BOTH_RELATIONS, NoTarget),
          MkEntry({}, <<>>, NoTarget),
          MkEntry({"include", "relation", "target"}, BOTH_RELATIONS,
                  WebTargetOk)}

SeqUpTo(S, n) == UNION {[1..k -> S] : k \in 0..n}

\* A JSON value as JSON.parse returns it.  "len" is the length of a string;
\* "items" are the values of an array, or of an object in key order.
MkValue(type, len, items) == [type |-> type, len |-> len, items |-> items]
NullValue == MkValue("null", 0, <<>>)

Arrays == {MkValue("array", 0, s) : s \in SeqUpTo(Entries, MaxEntries)}

JsonValues ==
  Arrays
    \cup {MkValue("object", 0, s) :
            s \in SeqUpTo({MkEntry({"relation", "target"}, BOTH_RELATIONS,
                                   AndroidTargetOk)}, 1)}
    \cup {NullValue, MkValue("number", 0, <<>>), MkValue("boolean", 0, <<>>),
          MkValue("string", 0, <<>>), MkValue("string", 3, <<>>)}

\* The text handed to handleParseJson: one that parses to a JSON value, one
\* that starts with a byte order mark, one that is otherwise no JSON.
MkText(kind, value) == [kind |-> kind, value |-> value]
NoText == MkText("none", NullValue)
SyntaxErrorText == MkText("syntax", NullValue)
Texts ==
  {MkText("json", v) : v \in JsonValues}
    \cup {MkText("bom", NullValue), SyntaxErrorText}

-----------------------------------------------------------------------------
(* Schema validation: validator.validate(obj, schema) under the five       *)
(* schemas of the repository.  An error carries the property path          *)
(* instance[item].prop[elem] (item, elem are JavaScript indices, -1 and "" *)
(* where the path has no such part) and the message.                       *)

SchemaError(item, prop, elem, message) ==
  [item |-> item, prop |-> prop, elem |-> elem, message |-> message]

IS_REQUIRED == "is required"
NOT_ONE_OF == "is not exactly one from </WebTarget>,</AndroidTarget>"

RECURSIVE Concat(_, _, _)
\* F(1) \o F(2) \o ... \o F(n), from index i on.
Concat(F(_), i, n) == IF i > n THEN <<>> ELSE F(i) \o Concat(F, i + 1, n)

\* Mutant of SCHEMA_WEB: "site" is not required.
SCHEMA_WEB_SiteOptional(t) ==
  /\ "namespace" \in t.keys /\ t.namespace = "web"
  /\ t.keys \subseteq {"namespace", "site"}

\* /WebTarget: TRUE iff the target validates.
SCHEMA_WEB(t) ==
  /\ "namespace" \in t.keys /\ t.namespace = "web"
  /\ "site" \in t.keys
  /\ t.keys \subseteq {"namespace", "site"}

\* Mutant of SCHEMA_ANDROID: the namespace literal is "android".
SCHEMA_ANDROID_WrongLiteral(t) ==
  /\ "namespace" \in t.keys /\ t.namespace = "android"
  /\ "sha256_cert_fingerprints" \in t.keys
  /\ "package_name" \in t.keys
  /\ t.keys \subseteq {"namespace", "sha256_cert_fingerprints", "package_name"}

\* /AndroidTarget: TRUE iff the target validates.
SCHEMA_ANDROID(t) ==
  /\ "namespace" \in t.keys /\ t.namespace = "android_app"
  /\ "sha256_cert_fingerprints" \in t.keys
  /\ "package_name" \in t.keys
  /\ t.keys \subseteq {"namespace", "sha256_cert_fingerprints", "package_name"}

\* /RelationEntity, as the "relation" property of entry number item.  The
\* property schema is {"$ref": ..., "required": true}: a validator that
\* replaces a schema holding $ref by the schema referred to drops the
\* "required" beside it (strict = FALSE); one that keeps it reports a missing
\* relation (strict = TRUE).
SCHEMA_RELATION(item, e, strict) ==
  IF "relation" \notin e.keys
    THEN IF strict THEN <<SchemaError(item, "relation", -1, IS_REQUIRED)>>
                   ELSE <<>>
    ELSE LET elemError(j) ==
               IF e.relation[j] = NOT_A_STRING
                 THEN <<SchemaError(item, "relation", j - 1,
                                    "is not of a type(s) string")>>
                 ELSE <<>>
         IN Concat(elemError, 1, Len(e.relation))

\* The "target" property of /BaseEntity: exactly one of the two targets, and
\* required.
oneOf(t) == Cardinality({s \in {"web", "android"} :
                           IF s = "web" THEN SCHEMA_WEB(t) ELSE SCHEMA_ANDROID(t)})

\* /BaseEntity, as item number item of the manifest.
SCHEMA_ENTITY(item, e, strict) ==
  SCHEMA_RELATION(item, e, strict)
    \o (IF "target" \notin e.keys
          THEN <<SchemaError(item, "target", -1, IS_REQUIRED)>>
          ELSE IF oneOf(e.target) # 1
                 THEN <<SchemaError(item, "target", -1, NOT_ONE_OF)>>
                 ELSE <<>>)

\* /Base: validator.validate(obj, this.schema).errors
SCHEMA_BASE(obj, strict) ==
  IF obj.type # "array"
    THEN <<SchemaError(-1, "", -1, "is not of a type(s) array")>>
    ELSE LET itemErrors(i) == SCHEMA_ENTITY(i - 1, obj.items[i], strict)
         IN Concat(itemErrors, 1, Len(obj.items))

-----------------------------------------------------------------------------
(* AssetCheck.handleParseJson                                              *)

BOM_MESSAGE == "File must be UTF-8 encoded _without_ a byte order mark (BOM)"
PARSE_MESSAGE == "Unable to parse json"
NO_DATA_MESSAGE == "No data in file."
SCHEMA_MESSAGE == "Errors validating schema"

\* Object.keys(obj).length
ObjectKeys(obj) == IF obj.type = "string" THEN obj.len ELSE Len(obj.items)

ParseResult(outcome, msg, validated, results, obj) ==
  [outcome |-> outcome, msg |-> msg, validated |-> validated,
   results |-> results, obj |-> obj]

\* Mutant of handleParseJson: the validator runs before the check for an
\* empty document.
handleParseJson_ValidateFirst(data, strict, bomSignature) ==
  IF data.kind = "bom"
    THEN ParseResult("fail", IF bomSignature THEN BOM_MESSAGE ELSE PARSE_MESSAGE,
                     FALSE, <<>>, NullValue)
  ELSE IF data.kind # "json"
    THEN ParseResult("fail", PARSE_MESSAGE, FALSE, <<>>, NullValue)
  ELSE IF data.value.type = "null"
    THEN ParseResult("throw", "TypeError", FALSE, <<>>, data.value)
  ELSE LET results == SCHEMA_BASE(data.value, strict)
       IN IF Len(results) > 0
            THEN ParseResult("fail", SCHEMA_MESSAGE, TRUE, results, data.value)
          ELSE IF ObjectKeys(data.value) < 1
            THEN ParseResult("fail", NO_DATA_MESSAGE, TRUE, results, data.value)
          ELSE ParseResult("succeed", "", TRUE, results, data.value)

\* What handleParseJson(data, succeed, fail) does: the callback it invokes
\* ("succeed", "fail") or "throw" when it raises, the message given to fail,
\* whether the validator ran, and the validator's errors.  bomSignature says
\* whether the runtime's parse error for a leading byte order mark starts
\* with the text the code looks for.
handleParseJson(data, strict, bomSignature) ==
  IF data.kind = "bom"
    THEN ParseResult("fail", IF bomSignature THEN BOM_MESSAGE ELSE PARSE_MESSAGE,
                     FALSE, <<>>, NullValue)
  ELSE IF data.kind # "json"
    THEN ParseResult("fail", PARSE_MESSAGE, FALSE, <<>>, NullValue)
  ELSE IF data.value.type = "null"
    THEN ParseResult("throw", "TypeError", FALSE, <<>>, data.value)
  ELSE IF ObjectKeys(data.value) < 1
    THEN ParseResult("fail", NO_DATA_MESSAGE, FALSE, <<>>, data.value)
  ELSE LET results == SCHEMA_BASE(data.value, strict)
       IN IF Len(results) > 0
            THEN ParseResult("fail", SCHEMA_MESSAGE, TRUE, results, data.value)
            ELSE ParseResult("succeed", "", TRUE, results, data.value)

-----------------------------------------------------------------------------
(* AssetEntry, AssetRelation, AssetTarget                                  *)

\* new AssetEntry(entry): the message of the error it throws, "" when it
\* returns.
AssetEntry(e) ==
  IF "relation" \notin e.keys THEN "No relation defined"
  ELSE IF Len(e.relation) < 1 THEN "No relation data"
  ELSE IF "target" \notin e.keys THEN "No target defined"
  ELSE IF "namespace" \notin e.target.keys THEN "Missing namespace in target"
  ELSE ""

hasGetLoginCreds(relation) ==
  \E j \in 1..Len(relation) : relation[j] = GET_LOGIN_CREDS

hasHandleAllUrls(relation) ==
  \E j \in 1..Len(relation) : relation[j] = HANDLE_ALL_URLS

\* target.getSite(): the error it throws, "" when it returns the site.
getSite(t) == IF "site" \notin t.keys THEN "Missing site from target" ELSE ""

\* target.isWeb(): "throw" when getSite throws, else "true" or "false" (an
\* empty site is falsy).
isWeb(t) ==
  IF t.namespace = "web"
    THEN IF getSite(t) # "" THEN "throw"
         ELSE IF t.site # "" THEN "true" ELSE "false"
    ELSE "false"

\* Mutant of getAndroidData: the fingerprints are not looked for.
getAndroidData_NoFingerprintCheck(t) ==
  IF "package_name" \notin t.keys
    THEN "Missing android package name from target"
    ELSE ""

\* target.getAndroidData(): the error it throws, "" when it returns.
getAndroidData(t) ==
  IF "sha256_cert_fingerprints" \notin t.keys
    THEN "Missing android fingerprint from target"
  ELSE IF "package_name" \notin t.keys
    THEN "Missing android package name from target"
  ELSE ""

\* The body of the try block of displayAssociations for one entry: the error
\* caught ("" when none) and the buckets after it.
Buckets(creds, links) == [creds |-> creds, links |-> links]
EmptyBucket == [web |-> <<>>, android |-> <<>>]

PushIf(cond, bucket, platform, name) ==
  IF cond THEN [bucket EXCEPT ![platform] = Append(@, name)] ELSE bucket

TryEntry(creds, links, e) ==
  LET thrown == AssetEntry(e)
      t == e.target
      relation == e.relation
  IN IF thrown # ""
       THEN [error |-> thrown, creds |-> creds, links |-> links]
     ELSE IF isWeb(t) = "throw"
       THEN [error |-> getSite(t), creds |-> creds, links |-> links]
     ELSE IF isWeb(t) = "true"
       THEN [error |-> "",
             creds |-> PushIf(hasGetLoginCreds(relation), creds, "web", t.site),
             links |-> PushIf(hasHandleAllUrls(relation), links, "web", t.site)]
     ELSE IF getAndroidData(t) # ""
       THEN [error |-> getAndroidData(t), creds |-> creds, links |-> links]
     ELSE [error |-> "",
           creds |-> PushIf(hasGetLoginCreds(relation), creds, "android",
                            t.package_name),
           links |-> PushIf(hasHandleAllUrls(relation), links, "android",
                            t.package_name)]

-----------------------------------------------------------------------------
(* Logging: logInfo, logDebug, err                                         *)

\* A request to log: through logInfo or logDebug, a message, and the list
\* joined under it.
Info(msg) == [via |-> "info", msg |-> msg, list |-> <<>>]
Debug(msg, list) == [via |-> "debug", msg |-> msg, list |-> list]

\* logInfo(msg): the standard stream after it.
logInfo(out, level, request) ==
  IF level <= LOG_SILENT THEN out ELSE Append(out, request)

\* logDebug(msg): the standard stream after it.
logDebug(out, level, request) ==
  IF level < LOG_DEBUG THEN out ELSE logInfo(out, level, request)

RECURSIVE Emit(_, _, _)
\* The standard stream after the requests, each through its function.
Emit(out, level, requests) ==
  IF requests = <<>> THEN out
  ELSE Emit(IF Head(requests).via = "debug"
              THEN logDebug(out, level, Head(requests))
              ELSE logInfo(out, level, Head(requests)),
            level, Tail(requests))

\* A line of the error stream, and the argument of err and fatal.  "path" is
\* the property path of a schema error, "status" the status code of a bad
\* response; NoPath and 0 elsewhere.
NoPath == [item |-> -1, prop |-> "", elem |-> -1]
Line(kind, msg, detail, path, status) ==
  [kind |-> kind, msg |-> msg, detail |-> detail, path |-> path,
   status |-> status]
Message(kind, msg, detail) == Line(kind, msg, detail, NoPath, 0)
NoMessage == Message("none", "", "")

\* err(msg, additional) for each of the lines: the error stream and hasErrors
\* after them.
err(console, level, lines) ==
  IF level <= LOG_SILENT \/ lines = <<>>
    THEN console
    ELSE [stderr |-> console.stderr \o lines, hasErrors |-> TRUE]

\* The error lines handleParseJson emits for the validator's errors.
SchemaLines(results) ==
  [k \in 1..Len(results) |->
     Line("schema", results[k].message, "",
          [item |-> results[k].item, prop |-> results[k].prop,
           elem |-> results[k].elem], 0)]

-----------------------------------------------------------------------------
(* AssetCheck.displayAssociations: the presentation after the loop          *)

SMART_LOCK == "# Smart Lock"
APP_LINKS == "# App Links"
NO_RELATIONS == "# No relations to display"
WEBSITES_LINKED == "## Websites linked"
CURRENT_WEBSITE == "## Current website"
TO_APPS == "## To apps"

\* Mutant of presentation: App Links is looked at only when Smart Lock was
\* not reported.
presentation_Exclusive(creds, links, hostname, host) ==
  IF Len(creds.web) > 0 /\ Len(creds.android) > 0
    THEN <<Info(SMART_LOCK), Debug(WEBSITES_LINKED, creds.web),
           Debug(TO_APPS, creds.android)>>
  ELSE IF Len(links.web) > 0 /\ Len(links.android) > 0
    THEN <<Info(APP_LINKS), Debug(WEBSITES_LINKED, links.web),
           Debug(TO_APPS, links.android)>>
  ELSE IF Len(links.android) > 0
    THEN <<Info(APP_LINKS),
           IF ~hostname THEN Debug(CURRENT_WEBSITE, <<>>)
                        ELSE Debug(WEBSITES_LINKED, <<host>>),
           Debug(TO_APPS, links.android)>>
  ELSE <<Info(NO_RELATIONS)>>

\* The log requests of the presentation, in order.  hostname is the field
\* this.hostname: FALSE as the constructor sets it, TRUE when it holds the
\* host of the checked manifest, which is then host.
presentation(creds, links, hostname, host) ==
  LET smartLock ==
        IF Len(creds.web) > 0 /\ Len(creds.android) > 0
          THEN <<Info(SMART_LOCK), Debug(WEBSITES_LINKED, creds.web),
                 Debug(TO_APPS, creds.android)>>
          ELSE <<>>
      appLinks ==
        IF Len(links.web) > 0 /\ Len(links.android) > 0
          THEN <<Info(APP_LINKS), Debug(WEBSITES_LINKED, links.web),
                 Debug(TO_APPS, links.android)>>
        ELSE IF Len(links.android) > 0
          THEN <<Info(APP_LINKS),
                 IF ~hostname THEN Debug(CURRENT_WEBSITE, <<>>)
                              ELSE Debug(WEBSITES_LINKED, <<host>>),
                 Debug(TO_APPS, links.android)>>
        ELSE <<>>
      displayed == smartLock # <<>> \/ appLinks # <<>>
  IN smartLock \o appLinks
       \o (IF ~displayed THEN <<Info(NO_RELATIONS)>> ELSE <<>>)

-----------------------------------------------------------------------------
(* AssetFile                                                               *)

\* A reference as url.parse splits it: scheme ("" when there is none), host
\* ("" when there is none) and path.
MkRef(scheme, host, path) == [scheme |-> scheme, host |-> host, path |-> path]
NoRef == MkRef("", "", "")
HOST == "foo.bar"
LocalFile == MkRef("", "", "assetlinks.json")

Filenames ==
  {LocalFile, MkRef("", "", "../https/www.foo.com/.well-known/assetlinks.json")}
    \cup {MkRef(s, HOST, p) : s \in {"http:", "https:"},
                              p \in {"", "/", "/file.txt"}}

\* The references the application is run on: a local one and a remote one.
RunFilenames == {LocalFile, MkRef("https:", HOST, "/.well-known/assetlinks.json")}

\* getFilename(): this.filename, as the constructor stored it.
getFilename(ref) == ref

\* isLocal(): !(this.uri.hostname)
isLocal(ref) == ref.host = ""

\* this.hostname as the AssetCheck constructor sets it.
InitialHostname(ref) == FALSE

\* Mutant of runHostname: run stores the host of the parsed reference.
runHostname_Tracked(current, ref) == ref.host # ""

\* this.hostname after run(): run parses the reference into a local uri and
\* stores nothing.
runHostname(current, ref) == current

-----------------------------------------------------------------------------
(* The HTTP response handed to handleHttpRequest.                          *)

LOCATION == "https://elsewhere.example/assetlinks.json"

MkResponse(statusCode, hasContentType, contentType, hasLocation) ==
  [statusCode |-> statusCode, hasContentType |-> hasContentType,
   contentType |-> contentType, hasLocation |-> hasLocation]
NoResponse == MkResponse(0, FALSE, <<>>, FALSE)

\* A Content-Type value is the sequence of its parts.
ContentTypes ==
  { <<APPLICATION_JSON>>, <<APPLICATION_JSON, "; charset=utf-8">>,
    <<"text/html">>, <<"text/", APPLICATION_JSON>> }

\* The responses: status 200, and a redirect and an error with and without
\* a Location header; each with every Content-Type and with none.
Responses ==
  LET statusAndLocation ==
        {<<HTTP_OK, FALSE>>} \cup ({301, 404} \X BOOLEAN)
  IN {MkResponse(sl[1], TRUE, c, sl[2]) :
        sl \in statusAndLocation, c \in ContentTypes}
       \cup {MkResponse(sl[1], FALSE, <<>>, sl[2]) : sl \in statusAndLocation}

\* contentType.indexOf('application/json'): the JavaScript index of the first
\* occurrence, counted in parts, -1 when there is none.
indexOf(contentType, part) ==
  IF \E k \in 1..Len(contentType) : contentType[k] = part
    THEN (CHOOSE k \in 1..Len(contentType) :
            /\ contentType[k] = part
            /\ \A j \in 1..(k - 1) : contentType[j] # part) - 1
    ELSE -1

-----------------------------------------------------------------------------
(* State                                                                   *)

VARIABLES
  api,        \* the operation invoked on the module: "run" (the command
              \* line), or a method called directly as the tests do, on
              \* an AssetCheck made for a local name
  filename,   \* AssetCheck.filename / AssetFile.filename
  logLevel,   \* AssetCheck.logLevel
  strictRef,  \* whether the validator keeps "required" beside "$ref"
  hostname,   \* AssetCheck.hostname
  hasErrors,  \* AssetCheck.hasErrors
  file,       \* what fs.readFileSync met: "unread", "unreadable", "empty",
              \* "contents"
  res,        \* the http.IncomingMessage
  body,       \* handleHttpRequest's body: FALSE while it is the empty
              \* string, TRUE once a chunk was appended
  text,       \* the data given to handleParseJson
  results,    \* handleParseJson's results.errors
  data,       \* the argument succeed / displayAssociations received
  item,       \* displayAssociations: the position of the loop in the keys
  creds,      \* displayAssociations: creds
  links,      \* displayAssociations: links
  log,        \* the requests made to logInfo and logDebug
  stdout,     \* the requests that reached console.log
  stderr,     \* the lines that reached console.error
  calls,      \* the functions and callbacks invoked, in order
  failMsg,    \* the argument handleParseJson gave to fail
  fatalArg,   \* the argument given to fatal
  exitCode,   \* the exit status of the process, -1 while it runs
  result,     \* the value getFilename returned
  pc          \* where control is

vars ==
  <<api, filename, logLevel, strictRef, hostname, hasErrors, file, res, body,
    text, results, data, item, creds, links, log, stdout, stderr, calls,
    failMsg, fatalArg, exitCode, result, pc>>

config == <<api, filename, logLevel, strictRef, hostname>>
loop == <<item, creds, links>>
output == <<log, stdout>>
parsing == <<text, results, data, failMsg>>

Init ==
  /\ api \in {"run", "handleParseJson", "displayAssociations", "getFilename"}
  /\ filename \in (IF api = "getFilename" THEN Filenames
                   ELSE IF api = "run" THEN RunFilenames
                   ELSE {LocalFile})
  /\ logLevel \in LOG_LEVELS
  /\ strictRef \in BOOLEAN
  /\ hostname = InitialHostname(filename)
  /\ hasErrors = FALSE
  /\ file = "unread"
  /\ res = NoResponse
  /\ body = FALSE
  /\ text = NoText
  /\ results = <<>>
  /\ data = NullValue
  /\ item = 1
  /\ creds = EmptyBucket
  /\ links = EmptyBucket
  /\ log = <<>>
  /\ stdout = <<>>
  /\ stderr = <<>>
  /\ calls = <<>>
  /\ failMsg = ""
  /\ fatalArg = NoMessage
  /\ exitCode = -1
  /\ result = NoRef
  /\ pc = "start"

\* fatal(msg, additional) after the calls and error lines of the same step:
\* err, then process.exit(1).
fatal(arg, additional, called, lines) ==
  LET console == err([stderr |-> stderr, hasErrors |-> hasErrors], logLevel,
                     lines \o <<arg>> \o additional)
  IN /\ stderr' = console.stderr
     /\ hasErrors' = console.hasErrors
     /\ fatalArg' = arg
     /\ calls' = calls \o called \o <<"fatal">>
     /\ exitCode' = 1
     /\ pc' = "exited"

\* An exception no handler catches ends the process with status 1.
uncaught(called) ==
  /\ calls' = calls \o called
  /\ exitCode' = 1
  /\ pc' = "crashed"
  /\ UNCHANGED <<stderr, hasErrors, fatalArg>>

\* run()
Run ==
  /\ pc = "start" /\ api = "run"
  /\ calls' = Append(calls, "run")
  /\ hostname' = runHostname(hostname, filename)
  /\ IF isLocal(filename)
       THEN pc' = "getLocal" /\ UNCHANGED output
       ELSE LET requests == <<Debug("User agent: ", <<>>), Info("URL: ")>>
            IN /\ pc' = "getRemote"
               /\ log' = log \o requests
               /\ stdout' = Emit(stdout, logLevel, requests)
  /\ UNCHANGED <<api, filename, logLevel, strictRef, hasErrors, file, res,
                 body, parsing, loop, stderr, fatalArg, exitCode, result>>

\* getLocal(success, fail) up to the call of success, with run's fail
\* callback: fatal('Unable to get contents of file', err).
GetLocal ==
  /\ pc = "getLocal"
  /\ \E f \in {"unreadable", "empty", "contents"} :
       /\ file' = f
       /\ IF f = "contents"
            THEN /\ \E t \in Texts : text' = t
                 /\ calls' = calls \o <<"getLocal", "success">>
                 /\ pc' = "handleParseJson"
                 /\ UNCHANGED <<stderr, hasErrors, fatalArg, exitCode>>
            ELSE /\ fatal(Message("fatal", "Unable to get contents of file", ""),
                          <<Message("additional",
                                    IF f = "empty" THEN "No file contents"
                                                   ELSE "ENOENT", "")>>,
                          <<"getLocal", "getLocal.fail">>, <<>>)
                 /\ UNCHANGED text
  /\ UNCHANGED <<config, res, body, results, data, failMsg, loop, output,
                 result>>

\* getLocal after success(contents) has returned: err = 'No file contents',
\* then fail(err).
GetLocalReturn ==
  /\ pc = "getLocalReturn"
  /\ fatal(Message("fatal", "Unable to get contents of file", ""),
           <<Message("additional", "No file contents", "")>>,
           <<"getLocal.fail">>, <<>>)
  /\ UNCHANGED <<config, file, res, body, parsing, loop, output, result>>

\* getRemote(handler, userAgent): https.get hands the response to the
\* handler; a request that fails emits 'error', which nothing listens to.
GetRemote ==
  /\ pc = "getRemote"
  /\ \E r \in Responses \cup {NoResponse} :
       IF r = NoResponse
         THEN uncaught(<<"getRemote">>) /\ UNCHANGED res
         ELSE /\ res' = r
              /\ calls' = Append(calls, "getRemote")
              /\ pc' = "handleHttpRequest"
              /\ UNCHANGED <<stderr, hasErrors, fatalArg, exitCode>>
  /\ UNCHANGED <<config, file, body, parsing, loop, output, result>>

\* handleHttpRequest(res)
HandleHttpRequest ==
  /\ pc = "handleHttpRequest"
  /\ IF res.statusCode # HTTP_OK
       THEN fatal(Line("fatal", "Bad response code: ",
                       IF res.hasLocation THEN LOCATION ELSE "", NoPath,
                       res.statusCode),
                  <<>>, <<"handleHttpRequest">>, <<>>)
     ELSE IF ~res.hasContentType
       THEN uncaught(<<"handleHttpRequest">>)
     ELSE IF indexOf(res.contentType, APPLICATION_JSON) # 0
       THEN fatal(Message("fatal", "Bad response Content-Type: ", ""),
                  <<>>, <<"handleHttpRequest">>, <<>>)
     ELSE /\ calls' = Append(calls, "handleHttpRequest")
          /\ pc' = "receiving"
          /\ UNCHANGED <<stderr, hasErrors, fatalArg, exitCode>>
  /\ UNCHANGED <<config, file, res, body, parsing, loop, output, result>>

\* res.on('data'): body += chunk
ResData ==
  /\ pc = "receiving"
  /\ body' = TRUE
  /\ UNCHANGED <<config, hasErrors, file, res, parsing, loop, output, stderr,
                 calls, fatalArg, exitCode, result, pc>>

\* res.on('end'): the body, empty when no chunk came, goes to
\* handleParseJson.
ResEnd ==
  /\ pc = "receiving"
  /\ \E t \in (IF body THEN Texts ELSE {SyntaxErrorText}) : text' = t
  /\ pc' = "handleParseJson"
  /\ UNCHANGED <<config, hasErrors, file, res, body, results, data, failMsg,
                 loop, output, stderr, calls, fatalArg, exitCode, result>>

\* A direct call of handleParseJson(data, succeed, fail) with callbacks that
\* record what they are given, or of displayAssociations(data).
Call ==
  /\ pc = "start"
  /\ IF api = "handleParseJson"
       THEN /\ \E t \in Texts : text' = t
            /\ pc' = "handleParseJson"
            /\ UNCHANGED data
       ELSE /\ api = "displayAssociations"
            /\ \E d \in Arrays : data' = d
            /\ pc' = "display"
            /\ UNCHANGED text
  /\ calls' = IF api = "displayAssociations"
                THEN Append(calls, "displayAssociations") ELSE calls
  /\ UNCHANGED <<config, hasErrors, file, res, body, results, failMsg, loop,
                 output, stderr, fatalArg, exitCode, result>>

\* handleParseJson(data, succeed, fail) with the callbacks of its caller.
\* Called by run on a local file: succeed is displayAssociations, fail is
\* fatal('Errors with file contents: ' + err), and what it throws is caught
\* by getLocal, which hands it to its own fail.  Called on a response body:
\* succeed is displayAssociations, fail is fatal(err), and nothing catches
\* what it throws.  Called directly: the callbacks record and return.
HandleParseJson ==
  /\ pc = "handleParseJson"
  /\ \E bomSignature \in BOOLEAN :
       LET r == handleParseJson(text, strictRef, bomSignature)
           lines == SchemaLines(r.results)
           called == <<"handleParseJson">>
                       \o (IF r.validated THEN <<"validate">> ELSE <<>>)
           console == err([stderr |-> stderr, hasErrors |-> hasErrors],
                          logLevel, lines)
       IN /\ results' = r.results
          /\ CASE r.outcome = "throw" ->
                    /\ UNCHANGED <<data, failMsg>>
                    /\ IF api = "run" /\ isLocal(filename)
                         THEN fatal(Message("fatal",
                                            "Unable to get contents of file", ""),
                                    <<Message("additional", "TypeError", "")>>,
                                    called \o <<"getLocal.fail">>, lines)
                       ELSE IF api = "run"
                         THEN uncaught(called)
                       ELSE /\ calls' = calls \o called
                            /\ pc' = "threw"
                            /\ UNCHANGED <<stderr, hasErrors, fatalArg, exitCode>>
               [] r.outcome = "fail" ->
                    /\ failMsg' = r.msg
                    /\ UNCHANGED data
                    /\ IF api = "run"
                         THEN fatal(IF isLocal(filename)
                                      THEN Message("fatal",
                                                   "Errors with file contents: ",
                                                   r.msg)
                                      ELSE Message("fatal", r.msg, ""),
                                    <<>>, called \o <<"fail">>, lines)
                         ELSE /\ stderr' = console.stderr
                              /\ hasErrors' = console.hasErrors
                              /\ calls' = calls \o called \o <<"fail">>
                              /\ pc' = "returned"
                              /\ UNCHANGED <<fatalArg, exitCode>>
               [] r.outcome = "succeed" ->
                    /\ data' = r.obj
                    /\ stderr' = console.stderr
                    /\ hasErrors' = console.hasErrors
                    /\ calls' = calls \o called \o <<"succeed">>
                                  \o (IF api = "run"
                                        THEN <<"displayAssociations">>
                                        ELSE <<>>)
                    /\ pc' = IF api = "run" THEN "display" ELSE "returned"
                    /\ UNCHANGED <<failMsg, fatalArg, exitCode>>
  /\ UNCHANGED <<config, file, res, body, text, loop, output, result>>

\* displayAssociations(data): one turn of the loop over Object.keys(data),
\* the try block and its catch.  creds and links start empty (Init).
DisplayEntry ==
  /\ pc = "display"
  /\ item <= Len(data.items)
  /\ LET r == TryEntry(creds, links, data.items[item])
         console == err([stderr |-> stderr, hasErrors |-> hasErrors], logLevel,
                        IF r.error # ""
                          THEN <<Message("entry", "[entry] ", r.error)>>
                          ELSE <<>>)
     IN /\ creds' = r.creds
        /\ links' = r.links
        /\ stderr' = console.stderr
        /\ hasErrors' = console.hasErrors
  /\ item' = item + 1
  /\ UNCHANGED <<config, file, res, body, parsing, output, calls, fatalArg,
                 exitCode, result, pc>>

\* displayAssociations(data) after the loop: the presentation, and the
\* return.  In run on a local file control returns into getLocal; in run on
\* a response the handler returns and the process ends with status 0.
Present ==
  /\ pc = "display"
  /\ item > Len(data.items)
  /\ LET requests == presentation(creds, links, hostname, filename.host)
     IN /\ log' = log \o requests
        /\ stdout' = Emit(stdout, logLevel, requests)
  /\ calls' = Append(calls, "presented")
  /\ IF api = "run" /\ isLocal(filename)
       THEN pc' = "getLocalReturn" /\ UNCHANGED exitCode
     ELSE IF api = "run"
       THEN pc' = "exited" /\ exitCode' = 0
     ELSE pc' = "returned" /\ UNCHANGED exitCode
  /\ UNCHANGED <<config, hasErrors, file, res, body, parsing, loop, stderr,
                 fatalArg, result>>

\* new AssetFile(reference).getFilename()
GetFilename ==
  /\ pc = "start" /\ api = "getFilename"
  /\ result' = getFilename(filename)
  /\ calls' = Append(calls, "getFilename")
  /\ pc' = "returned"
  /\ UNCHANGED <<config, hasErrors, file, res, body, parsing, loop, output,
                 stderr, fatalArg, exitCode>>

Next ==
  \/ Run
  \/ GetLocal
  \/ GetLocalReturn
  \/ GetRemote
  \/ HandleHttpRequest
  \/ ResData
  \/ ResEnd
  \/ Call
  \/ HandleParseJson
  \/ DisplayEntry
  \/ Present
  \/ GetFilename

Spec == Init /\ [][Next]_vars

-----------------------------------------------------------------------------
(* Properties                                                              *)

Called(name) == \E k \in 1..Len(calls) : calls[k] = name

Requested(msg) == \E k \in 1..Len(log) : log[k].msg = msg

InStdout(msg) == \E k \in 1..Len(stdout) : stdout[k].msg = msg

SchemaLineEmitted == \E k \in 1..Len(stderr) : stderr[k].kind = "schema"

\* The manifest handleParseJson was given is a JSON array.
ParsedArray ==
  /\ Called("handleParseJson")
  /\ text.kind = "json"
  /\ text.value.type = "array"

\* The targets and entries as the data model describes them.
IsWebTarget(t) == t.keys = {"namespace", "site"} /\ t.namespace = "web"

IsAndroidTarget(t) ==
  /\ t.keys = {"namespace", "package_name", "sha256_cert_fingerprints"}
  /\ t.namespace = "android_app"

RelationOfStrings(e) ==
  /\ "relation" \in e.keys
  /\ \A j \in 1..Len(e.relation) : e.relation[j] # NOT_A_STRING

WellFormed(e) ==
  /\ "include" \notin e.keys
  /\ RelationOfStrings(e)
  /\ "target" \in e.keys
  /\ IsWebTarget(e.target) # IsAndroidTarget(e.target)

\* The response deviates from status 200 with a Content-Type that begins
\* with application/json.
JsonContentType(r) ==
  /\ r.hasContentType
  /\ Len(r.contentType) >= 1
  /\ r.contentType[1] = APPLICATION_JSON

BadResponse(r) == r.statusCode # HTTP_OK \/ ~JsonContentType(r)

\* C1: a run ends with a non-zero exit status if and only if a fatal
\* condition occurred (the file unreadable or empty, no or a bad HTTP
\* response, a text handleParseJson does not accept); a run that presented
\* its associations never reaches fatal and exits zero.
C1_FatalCondition ==
  \/ file \in {"unreadable", "empty"}
  \/ (Called("getRemote") /\ res = NoResponse)
  \/ (res # NoResponse /\ BadResponse(res))
  \/ (text # NoText /\ handleParseJson(text, strictRef, TRUE).outcome # "succeed")

C1_ExitStatus ==
  pc \in {"exited", "crashed"} =>
    /\ (exitCode # 0) <=> C1_FatalCondition
    /\ Called("presented") => (exitCode = 0 /\ ~Called("fatal"))

\* C2: when one entry of the manifest has a sound relation and a target that
\* is neither a WebTarget nor an AndroidTarget (or is both), and every other
\* entry is well-formed, handleParseJson calls fail, never succeed, and the
\* validator returns exactly one error, whose property path is that entry's
\* target.
C2_Case(k) ==
  /\ ParsedArray
  /\ k \in 1..Len(text.value.items)
  /\ RelationOfStrings(text.value.items[k])
  /\ "target" \in text.value.items[k].keys
  /\ IsWebTarget(text.value.items[k].target)
       = IsAndroidTarget(text.value.items[k].target)
  /\ \A j \in 1..Len(text.value.items) :
       j # k => WellFormed(text.value.items[j])

C2_ExactlyOneTargetError ==
  \A k \in 1..(MaxEntries + 1) :
    C2_Case(k) =>
      /\ Called("fail") /\ ~Called("succeed")
      /\ failMsg = SCHEMA_MESSAGE
      /\ Len(results) = 1
      /\ results[1].item = k - 1
      /\ results[1].prop = "target"
      /\ results[1].elem = -1

\* C2's case: the second of two entries has the defective target
\* (instance[1].target), and fail was called.
C2_Witness ==
  /\ C2_Case(2)
  /\ "namespace" \notin text.value.items[2].target.keys
  /\ Called("fail")

\* C3: for a non-empty array of well-formed entries handleParseJson calls
\* succeed with the parsed structure, does not call fail, the validator's
\* error list is empty and no schema error line is emitted.
C3_Case ==
  /\ ParsedArray
  /\ Len(text.value.items) >= 1
  /\ \A j \in 1..Len(text.value.items) : WellFormed(text.value.items[j])

C3_WellFormedSucceeds ==
  C3_Case =>
    /\ Called("succeed") /\ ~Called("fail")
    /\ data = text.value
    /\ results = <<>>
    /\ failMsg = ""
    /\ ~SchemaLineEmitted

\* C3's case: a web entry and an android entry, accepted.
C3_Witness ==
  /\ C3_Case
  /\ Called("succeed")
  /\ Len(text.value.items) = 2
  /\ IsWebTarget(text.value.items[1].target)
  /\ IsAndroidTarget(text.value.items[2].target)

\* C4: in displayAssociations an entry whose interpretation fails (no
\* relation, an empty relation, no target, no namespace, namespace web
\* without site, android data without package name or fingerprints) adds
\* nothing to the four buckets; the buckets equal those of the same sequence
\* with the failing entries removed; and the loop goes on to the
\* presentation: the failure is not propagated.
C4_TakenForWeb(t) == t.namespace = "web" /\ "site" \in t.keys /\ t.site # ""

C4_Fails(e) ==
  \/ "relation" \notin e.keys
  \/ Len(e.relation) = 0
  \/ "target" \notin e.keys
  \/ "namespace" \notin e.target.keys
  \/ (e.target.namespace = "web" /\ "site" \notin e.target.keys)
  \/ /\ ~C4_TakenForWeb(e.target)
     /\ \/ "package_name" \notin e.target.keys
        \/ "sha256_cert_fingerprints" \notin e.target.keys

C4_Has(relation, token) == \E j \in 1..Len(relation) : relation[j] = token

\* What an entry that does not fail contributes.
C4_Add(b, e) ==
  LET platform == IF C4_TakenForWeb(e.target) THEN "web" ELSE "android"
      name == IF C4_TakenForWeb(e.target) THEN e.target.site
                                          ELSE e.target.package_name
  IN [creds |-> IF C4_Has(e.relation, GET_LOGIN_CREDS)
                  THEN [b.creds EXCEPT ![platform] = Append(@, name)]
                  ELSE b.creds,
      links |-> IF C4_Has(e.relation, HANDLE_ALL_URLS)
                  THEN [b.links EXCEPT ![platform] = Append(@, name)]
                  ELSE b.links]

RECURSIVE C4_Sum(_)
C4_Sum(entries) ==
  IF entries = <<>> THEN Buckets(EmptyBucket, EmptyBucket)
  ELSE C4_Add(C4_Sum(SubSeq(entries, 1, Len(entries) - 1)),
              entries[Len(entries)])

C4_Kept(entries) == SelectSeq(entries, LAMBDA e : ~C4_Fails(e))

C4_FailingEntriesContained ==
  Called("displayAssociations") =>
    /\ Buckets(creds, links)
         = C4_Sum(C4_Kept(SubSeq(data.items, 1, item - 1)))
    /\ pc \in {"display", "returned", "getLocalReturn", "exited"}
    /\ pc = "display" => ENABLED (DisplayEntry \/ Present)
    /\ pc # "display" => (Called("presented") /\ item = Len(data.items) + 1)

\* C4's case: a web entry without site was skipped with its message, and
\* the well-formed sibling after it is in the buckets presented.
C4_Witness ==
  /\ api = "displayAssociations"
  /\ Called("presented")
  /\ Len(data.items) = 2
  /\ data.items[1].target = MkTarget({"namespace"}, "web", "", "")
  /\ C4_Fails(data.items[1])
  /\ ~C4_Fails(data.items[2])
  /\ creds.web = <<SITE>> /\ links.web = <<SITE>>
  /\ logLevel > LOG_SILENT
  /\ stderr = <<Message("entry", "[entry] ", "Missing site from target")>>

\* C5: displayAssociations reports Smart Lock (asks logInfo for it, which
\* prints it unless the log level is silent) if and only if creds.web and
\* creds.android are both non-empty, whatever links holds; App Links is
\* reported if and only if links.android is non-empty, whatever creds holds;
\* so both can be reported in one run and neither suppresses the other.
C5_SmartLockIndependent ==
  Called("presented") =>
    LET smartLock == Len(creds.web) > 0 /\ Len(creds.android) > 0
        appLinks == Len(links.android) > 0
    IN /\ Requested(SMART_LOCK) <=> smartLock
       /\ Requested(APP_LINKS) <=> appLinks
       /\ InStdout(SMART_LOCK) <=> (smartLock /\ logLevel >= LOG_INFO)
       /\ InStdout(APP_LINKS) <=> (appLinks /\ logLevel >= LOG_INFO)
       /\ Requested(NO_RELATIONS) <=> (~smartLock /\ ~appLinks)

\* C5's case: Smart Lock and App Links printed in the same run.
C5_Witness ==
  /\ Called("presented")
  /\ InStdout(SMART_LOCK)
  /\ InStdout(APP_LINKS)
  /\ Len(links.web) = 0

\* C6: hostname is false in every reachable state; so when links.android is
\* non-empty and links.web is empty, displayAssociations reports App Links
\* exactly once, with the generic Current website label and the android
\* package names under apps, and never lists a tracked hostname.
C6_Case ==
  /\ Called("presented")
  /\ Len(links.android) > 0
  /\ Len(links.web) = 0

C7_Normalize(ref) ==
  IF ref.host = "" THEN ref
  ELSE MkRef("https:", ref.host,
             IF ref.path \in {"", "/"} THEN "/.well-known/assetlinks.json"
                                       ELSE ref.path)

C7_FilenameNormalized ==
  (api = "getFilename" /\ pc = "returned") =>
    /\ result = C7_Normalize(filename)
    /\ C7_Normalize(result) = result

\* C8: a response whose status is not 200 or whose Content-Type does not
\* begin with application/json (an absent header included) ends the run
\* through fatal with a Bad response message, with the Location value when
\* the status is not 200 and the header is present, and neither
\* handleParseJson nor displayAssociations is invoked.
C8_BadResponseIsFatal ==
  (Called("handleHttpRequest") /\ BadResponse(res)) =>
    /\ pc = "exited" /\ exitCode = 1
    /\ Called("fatal")
    /\ fatalArg.msg \in {"Bad response code: ", "Bad response Content-Type: "}
    /\ (res.statusCode # HTTP_OK /\ res.hasLocation) => fatalArg.detail = LOCATION
    /\ ~Called("handleParseJson")
    /\ ~Called("displayAssociations")

\* C9: handleParseJson rejects every manifest that has an entry whose
\* relation is an empty array: fail('Errors validating schema') is called
\* and succeed is not.
C9_EmptyRelationRejected ==
  (/\ ParsedArray
   /\ \E k \in 1..Len(text.value.items) :
        /\ "relation" \in text.value.items[k].keys
        /\ text.value.items[k].relation = <<>>) =>
    /\ Called("fail") /\ ~Called("succeed")
    /\ failMsg = SCHEMA_MESSAGE

\* C10: handleParseJson rejects an empty array and an empty object with
\* fail('No data in file.') before schema validation: the validator does not
\* run and no schema error line is emitted.
C10_Case ==
  /\ Called("handleParseJson")
  /\ text.kind = "json"
  /\ text.value.type \in {"array", "object"}
  /\ Len(text.value.items) = 0

C10_NoDataBeforeSchema ==
  C10_Case =>
    /\ Called("fail") /\ ~Called("succeed")
    /\ failMsg = NO_DATA_MESSAGE
    /\ ~Called("validate")
    /\ results = <<>>
    /\ ~SchemaLineEmitted

\* C10's case: an empty object was rejected at a log level that prints.
C10_Witness ==
  /\ C10_Case
  /\ text.value.type = "object"
  /\ Called("fail")
  /\ logLevel > LOG_SILENT

\* C11: handleParseJson calls fail, and never succeed, for every manifest
\* with an entry that carries an "include" key beside "target", whatever the
\* entry's other fields.
C11_Case ==
  /\ ParsedArray
  /\ \E k \in 1..Len(text.value.items) :
       {"include", "target"} \subseteq text.value.items[k].keys

C11_IncludeWithTargetRejected ==
  C11_Case => (Called("fail") /\ ~Called("succeed"))

\* How many times a function or callback was invoked.
Times(name) == Cardinality({k \in 1..Len(calls) : calls[k] = name})

\* C12: getLocal invokes exactly one of its callbacks, once: success if and
\* only if the file is readable and non-empty, fail otherwise; fail is never
\* invoked after success, and what the success callback throws is not
\* reported as a failure to get the file.
C12_ExactlyOneCallback ==
  Called("getLocal") =>
    /\ Times("success") + Times("getLocal.fail") = 1
    /\ Called("success") <=> (file = "contents")
    /\ Called("getLocal.fail") <=> (file \in {"unreadable", "empty"})

\* C13: whatever the text is, handleParseJson invokes exactly one of succeed
\* and fail, once, and raises no exception; succeed is invoked only after
\* the validator returned no error.
C13_ExactlyOneCallback ==
  Called("handleParseJson") =>
    /\ Times("succeed") + Times("fail") = 1
    /\ pc # "threw"
    /\ Called("succeed") => (Called("validate") /\ results = <<>>)

====
